---------------------------- MODULE Spec2Model ----------------------------
(***************************************************************************)
(* Model of the client-side code of the graduate-employment dashboard:     *)
(*                                                                         *)
(*   static/js/function1.js  the year-range filter that recomputes the     *)
(*                           per-group mean / sample standard deviation /  *)
(*                           stability index and redraws the bar, scatter  *)
(*                           and line charts;                              *)
(*   static/js/function3.js  the ROI table and chart, filled from          *)
(*                           /api/roi/university by fetch().               *)
(*                                                                         *)
(* Three specifications share the variables:                               *)
(*   Spec      the range filter of function1.js as a state machine;        *)
(*   SpecPure  the pure helpers of function1.js on drawn arguments;        *)
(*   SpecROI   the request/response flow of function3.js.                  *)
(***************************************************************************)
EXTENDS Integers, Sequences, FiniteSets

(***************************************************************************)
(* Bounds of the model.                                                    *)
(***************************************************************************)
\* JavaScript numbers are IEEE-754 binary64 (53 significant bits).  The model
\* keeps the arithmetic (round to nearest, ties to even, after every
\* operation) and shortens the significand so that it fits the model
\* checker's 32-bit integers.
MantBits == 8

\* Longest yearsAll of the range filter.
MaxYears == 3

\* Most groups (universities) in lineDatasetsAll.
MaxGroups == 2

\* Most groups handed to computeStabilityFromLineDatasets on its own.
MaxRankGroups == 3

\* Longest yearsAll of the ROI page.
MaxRoiYears == 2

\* Most fetches loadROI starts in one run of the ROI page.
MaxRequests == 2

(***************************************************************************)
(* JavaScript values.  Every value is a record of one shape:               *)
(*   k = "num"   the finite number s * m * 2^e  (m = 0, or m odd)          *)
(*   k = "inf"   +Infinity (s = 1) or -Infinity (s = -1)                   *)
(*   k = "nan"   NaN                                                       *)
(*   k = "null"  null (a missing value; also the helpers' "no result")     *)
(*   k = "str"   a value that is not a number (typeof v !== "number")      *)
(***************************************************************************)
Val(k, s, m, e) == [k |-> k, s |-> s, m |-> m, e |-> e]

Null == Val("null", 1, 0, 0)

NaN == Val("nan", 1, 0, 0)

NotANumber == Val("str", 1, 0, 0)

Zero == Val("num", 1, 0, 0)

Inf(s) == Val("inf", s, 0, 0)

\* typeof v === "number" && !Number.isNaN(v)
IsValidNumber(v) == v.k \in {"num", "inf"}

\* The number of bits of n >= 0, four bits at a time.
RECURSIVE BitLen(_)
BitLen(n) ==
  IF n >= 16 THEN 4 + BitLen(n \div 16)
  ELSE IF n >= 8 THEN 4
  ELSE IF n >= 4 THEN 3
  ELSE IF n >= 2 THEN 2
  ELSE n

\* The canonical form of s * n * 2^e, n > 0: the significand made odd.
RECURSIVE Canon(_, _, _)
Canon(s, n, e) ==
  IF n % 2 = 1 THEN Val("num", s, n, e)
  ELSE IF n % 16 = 0 THEN Canon(s, n \div 16, e + 4)
  ELSE Canon(s, n \div 2, e + 1)

\* n without its sh lowest bits, rounded to nearest, ties to even.
RoundShift(n, sh) ==
  IF (n % (2 ^ sh)) * 2 > 2 ^ sh
     \/ ((n % (2 ^ sh)) * 2 = 2 ^ sh /\ (n \div (2 ^ sh)) % 2 = 1)
  THEN (n \div (2 ^ sh)) + 1
  ELSE n \div (2 ^ sh)

RoundLen(s, n, e, len) ==
  IF len <= MantBits THEN Canon(s, n, e)
  ELSE Canon(s, RoundShift(n, len - MantBits), e + len - MantBits)

\* s * n * 2^e, n >= 0, rounded to MantBits significant bits, to nearest,
\* ties to even.
Round(s, n, e) == IF n = 0 THEN Zero ELSE RoundLen(s, n, e, BitLen(n))

\* The signed integer i * 2^e as a number.
RoundInt(i, e) == Round(IF i < 0 THEN -1 ELSE 1, IF i < 0 THEN -i ELSE i, e)

\* The number of an integer literal.
Num(i) == RoundInt(i, 0)

Neg(v) == IF v.k = "inf" \/ (v.k = "num" /\ v.m # 0)
          THEN [v EXCEPT !.s = -v.s] ELSE v

\* a + b for finite non-zero a and b whose leading bits are at ta and tb: the
\* smaller is below a quarter of the larger's last place when the gap is
\* wide, the exact sum is rounded otherwise.
AddAligned(a, b, e0) ==
  RoundInt(a.s * a.m * (2 ^ (a.e - e0)) + b.s * b.m * (2 ^ (b.e - e0)), e0)

AddFinite(a, b, ta, tb) ==
  IF ta - tb > MantBits + 2 THEN a
  ELSE IF tb - ta > MantBits + 2 THEN b
       ELSE AddAligned(a, b, IF a.e < b.e THEN a.e ELSE b.e)

\* a + b
FAdd(a, b) ==
  CASE a.k = "nan" \/ b.k = "nan" -> NaN
    [] a.k = "inf" /\ b.k = "inf" -> IF a.s = b.s THEN a ELSE NaN
    [] a.k = "inf" -> a
    [] b.k = "inf" -> b
    [] a.m = 0 -> b
    [] b.m = 0 -> a
    [] OTHER -> AddFinite(a, b, a.e + BitLen(a.m), b.e + BitLen(b.m))

\* a - b
FSub(a, b) == FAdd(a, Neg(b))

\* a * b
FMul(a, b) ==
  CASE a.k = "nan" \/ b.k = "nan" -> NaN
    [] a.k = "inf" \/ b.k = "inf" ->
         IF (a.k = "num" /\ a.m = 0) \/ (b.k = "num" /\ b.m = 0)
         THEN NaN ELSE Inf(a.s * b.s)
    [] OTHER -> Round(a.s * b.s, a.m * b.m, a.e + b.e)

\* s * (x / y) * 2^(e - k) for integers x > 0, y > 0 with x / y of at least
\* MantBits + 2 bits: the remainder is kept as one more, sticky, bit.
DivSticky(s, x, y, e) ==
  Round(s, 2 * (x \div y) + (IF x % y = 0 THEN 0 ELSE 1), e - 1)

DivShift(s, x, y, e, k) ==
  IF k > 0 THEN DivSticky(s, x * (2 ^ k), y, e - k) ELSE DivSticky(s, x, y, e)

\* s * (x / y) * 2^e for integers x > 0, y > 0, correctly rounded.
DivRound(s, x, y, e) ==
  DivShift(s, x, y, e, BitLen(y) + MantBits + 2 - BitLen(x))

\* a / b
FDiv(a, b) ==
  CASE a.k = "nan" \/ b.k = "nan" -> NaN
    [] a.k = "inf" -> IF b.k = "inf" THEN NaN ELSE Inf(a.s * b.s)
    [] b.k = "inf" -> Zero
    [] b.m = 0 -> IF a.m = 0 THEN NaN ELSE Inf(a.s)
    [] a.m = 0 -> Zero
    [] OTHER -> DivRound(a.s * b.s, a.m, b.m, a.e - b.e)

\* The integer square root of n, from that of n \div 4 doubled.
IsqrtStep(n, s) == IF (s + 1) * (s + 1) <= n THEN s + 1 ELSE s

RECURSIVE Isqrt(_)
Isqrt(n) == IF n < 2 THEN n ELSE IsqrtStep(n, 2 * Isqrt(n \div 4))

\* sqrt(n * 2^e) for e even, n of at least 2 * (MantBits + 2) bits, with
\* root r = Isqrt(n): inexact roots keep a sticky bit.
SqrtSticky(n, e, r) ==
  Round(1, 2 * r + (IF r * r = n THEN 0 ELSE 1), (e \div 2) - 1)

SqrtShift(m, e, k) ==
  IF (e - k) % 2 = 0
  THEN SqrtSticky(m * (2 ^ k), e - k, Isqrt(m * (2 ^ k)))
  ELSE SqrtSticky(m * (2 ^ (k + 1)), e - k - 1, Isqrt(m * (2 ^ (k + 1))))

SqrtWant(m, e, want) == SqrtShift(m, e, IF want > 0 THEN want ELSE 0)

\* Math.sqrt(a)
FSqrt(a) ==
  CASE a.k = "nan" -> NaN
    [] a.k = "inf" -> IF a.s = 1 THEN a ELSE NaN
    [] a.m = 0 -> Zero
    [] a.s = -1 -> NaN
    [] OTHER -> SqrtWant(a.m, a.e, 2 * (MantBits + 2) - BitLen(a.m))

\* The sign of a number that is not NaN: -1, 0 or 1.
Sign(v) == IF v.k = "num" /\ v.m = 0 THEN 0 ELSE v.s

\* The sign of a - b.
Cmp(a, b) == Sign(FSub(a, b))

\* Number(x.toFixed(3)): x as a decimal string with three fraction digits
\* (the nearest multiple of 0.001, a tie going away from zero), read back as a
\* number.  NaN and the infinities print as "NaN" and "Infinity" and read
\* back as themselves.
Thousandths(v) ==
  IF v.e >= 0 THEN v.m * 1000 * (2 ^ v.e)
  ELSE (2 * v.m * 1000 + 2 ^ (-v.e)) \div (2 ^ (1 - v.e))

ParseThousandths(s, n) == IF n = 0 THEN Zero ELSE DivRound(s, n, 1000, 0)

NumberToFixed3(v) ==
  IF v.k # "num" \/ v.m = 0 THEN v ELSE ParseThousandths(v.s, Thousandths(v))

(***************************************************************************)
(* Strings, as sequences of characters, and the two conversions the        *)
(* year selectors go through: String(y) when the options are filled and    *)
(* Number(value) when a range is applied.  A year is an integer, exact in  *)
(* a JavaScript number; Number() of a string is [nan, v].                  *)
(***************************************************************************)
DigitChars == <<"0", "1", "2", "3", "4", "5", "6", "7", "8", "9">>

RECURSIVE DigitsOf(_)
DigitsOf(n) ==
  IF n < 10 THEN <<DigitChars[n + 1]>>
  ELSE Append(DigitsOf(n \div 10), DigitChars[(n % 10) + 1])

\* String(undefined)
UndefinedString == <<"u", "n", "d", "e", "f", "i", "n", "e", "d">>

\* String(y) of a non-negative integer year
String(y) == DigitsOf(y)

DigitValue(c) == CHOOSE d \in 0..9 : DigitChars[d + 1] = c

RECURSIVE ParseDigits(_, _)
ParseDigits(str, acc) ==
  IF str = <<>> THEN acc
  ELSE ParseDigits(Tail(str), 10 * acc + DigitValue(Head(str)))

\* Number(str): 0 for the empty string, the value of a digit string, NaN for
\* anything else.
Number(str) ==
  IF str = <<>> THEN [nan |-> FALSE, v |-> 0]
  ELSE IF \A i \in 1..Len(str) : \E d \in 1..10 : DigitChars[d] = str[i]
       THEN [nan |-> FALSE, v |-> ParseDigits(str, 0)]
       ELSE [nan |-> TRUE, v |-> 0]

\* The value a <select> reads back after `select.value = v`: v when one of
\* its options carries it, the empty string (nothing selected) otherwise.
SelectValue(options, v) ==
  IF \E i \in 1..Len(options) : options[i] = v THEN v ELSE <<>>

(***************************************************************************)
(* function1.js: helpers                                                   *)
(***************************************************************************)
NoSlice == [ok |-> FALSE, fromIdx |-> -1, toIdx |-> -1]

\* years.indexOf(y), 0-based, -1 when no element is strictly equal to y
\* (NaN is strictly equal to nothing).
\* A variant of indexOf that falls back to the first position for a year
\* that is not in the list.
indexOfOrFirst(years, y) ==
  IF \E i \in 1..Len(years) : ~y.nan /\ years[i] = y.v
  THEN (CHOOSE i \in 1..Len(years) :
          /\ ~y.nan /\ years[i] = y.v
          /\ \A j \in 1..(i - 1) : years[j] # y.v) - 1
  ELSE IF Len(years) > 0 THEN 0 ELSE -1

RECURSIVE IndexFrom(_, _, _)
IndexFrom(years, y, i) ==
  IF i > Len(years) THEN -1
  ELSE IF ~y.nan /\ years[i] = y.v THEN i - 1
       ELSE IndexFrom(years, y, i + 1)

indexOf(years, y) == IndexFrom(years, y, 1)

\* A variant of the check of sliceByYearRange without fromIdx > toIdx.
sliceOfAnyOrder(fromIdx, toIdx) ==
  IF fromIdx = -1 \/ toIdx = -1 THEN [ok |-> FALSE, fromIdx |-> -1, toIdx |-> -1]
  ELSE [ok |-> TRUE, fromIdx |-> fromIdx, toIdx |-> toIdx]

sliceOf(fromIdx, toIdx) ==
  IF fromIdx = -1 \/ toIdx = -1 \/ fromIdx > toIdx THEN NoSlice
  ELSE [ok |-> TRUE, fromIdx |-> fromIdx, toIdx |-> toIdx]

sliceByYearRange(years, fromYear, toYear) ==
  sliceOf(indexOf(years, fromYear), indexOf(years, toYear))

\* arr.filter(v => typeof v === "number" && !Number.isNaN(v))
validValues(arr) == SelectSeq(arr, IsValidNumber)

\* vals.reduce((a, b) => a + b, 0)
RECURSIVE SumFrom(_, _)
SumFrom(acc, vals) ==
  IF vals = <<>> THEN acc ELSE SumFrom(FAdd(acc, Head(vals)), Tail(vals))

\* A variant of mean that gives 0 when there is no valid value.
meanOrZero(vals) ==
  IF Len(vals) = 0 THEN Zero ELSE FDiv(SumFrom(Zero, vals), Num(Len(vals)))

meanOfValid(vals) ==
  IF Len(vals) = 0 THEN Null ELSE FDiv(SumFrom(Zero, vals), Num(Len(vals)))

mean(arr) == meanOfValid(validValues(arr))

\* x ** 2
Square(x) == FMul(x, x)

\* vals.reduce((acc, v) => acc + (v - m) ** 2, 0)
RECURSIVE SumSqFrom(_, _, _)
SumSqFrom(acc, vals, m) ==
  IF vals = <<>> THEN acc
  ELSE SumSqFrom(FAdd(acc, Square(FSub(Head(vals), m))), Tail(vals), m)

stdDevOfValid(vals) ==
  IF Len(vals) < 2 THEN Null
  ELSE FSqrt(FDiv(SumSqFrom(Zero, vals, mean(vals)), Num(Len(vals) - 1)))

\* sample standard deviation (divisor n - 1)
stdDev(arr) == stdDevOfValid(validValues(arr))

\* (m !== null && s !== null && s !== 0) ? (m / s) : null
stabilityIndex(m, s) ==
  IF m # Null /\ s # Null /\ s # Zero THEN FDiv(m, s) ELSE Null

statsEntry(label, m, s) ==
  [group |-> label, mean |-> m, std |-> s, stability |-> stabilityIndex(m, s)]

\* One entry of stats.
groupStats(ds) == statsEntry(ds.label, mean(ds.data), stdDev(ds.data))

\* r.stability !== null && !Number.isNaN(r.stability)
\*   && Number.isFinite(r.stability)
isRanked(r) == r.stability.k = "num"

\* The comparator of the sort: b.stability - a.stability, as its sign.
compareStability(a, b) == Cmp(b.stability, a.stability)

\* A variant of the insertion that puts x before the elements equal to it.
RECURSIVE InsertBeforeEqual(_, _)
InsertBeforeEqual(sorted, x) ==
  IF sorted = <<>> THEN <<x>>
  ELSE IF compareStability(Head(sorted), x) >= 0 THEN <<x>> \o sorted
       ELSE <<Head(sorted)>> \o InsertBeforeEqual(Tail(sorted), x)

\* Array.prototype.sort is stable: x goes before the first element that the
\* comparator puts after it.
RECURSIVE InsertSorted(_, _)
InsertSorted(sorted, x) ==
  IF sorted = <<>> THEN <<x>>
  ELSE IF compareStability(Head(sorted), x) > 0 THEN <<x>> \o sorted
       ELSE <<Head(sorted)>> \o InsertSorted(Tail(sorted), x)

RECURSIVE SortFrom(_, _)
SortFrom(sorted, rest) ==
  IF rest = <<>> THEN sorted
  ELSE SortFrom(InsertSorted(sorted, Head(rest)), Tail(rest))

sortByStability(rows) == SortFrom(<<>>, rows)

rankStats(stats) ==
  [stats |-> stats, ranked |-> sortByStability(SelectSeq(stats, isRanked))]

computeStabilityFromLineDatasets(years, datasets) ==
  rankStats([i \in 1..Len(datasets) |-> groupStats(datasets[i])])

(***************************************************************************)
(* State                                                                   *)
(***************************************************************************)
VARIABLES
  \* function1.js
  yearsAll,          \* d.yearsAll: the loaded years
  lineDatasetsAll,   \* d.lineDatasetsAll: <<[label, data]>>, full range
  yearFrom,          \* value of the <select id="yearFrom">
  yearTo,            \* value of the <select id="yearTo">
  barChart,          \* barChart.data: [labels, data]
  scatterChart,      \* scatterChart.data.datasets[0].data: <<[label, x, y]>>
  lineChart,         \* lineChart.data: [labels, datasets]
  updates,           \* the chart.update() calls of the latest handler
  event,             \* the latest handler: "load", "select", "apply", "reset"
  applied,           \* the slice of the latest applyRange that got past its check
  computed,          \* { stats, ranked } of that applyRange
  \* the helpers of function1.js applied to drawn arguments
  pureArgs,          \* [fn, years, fromYear, toYear, datasets]
  pureResult,        \* [called, slice, stats, ranked]
  \* function3.js
  roiYearsAll,       \* d.yearsAll of the ROI page
  roiYearFrom,       \* value of its <select id="yearFrom">
  roiYearTo,         \* value of its <select id="yearTo">
  roiTable,          \* the rows of #roiTable tbody
  roiChart,          \* the module-level chart handle: its data, or no chart
  inflight,          \* the fetches not yet settled: [id, fromYear, toYear]
  issued,            \* how many fetches loadROI has started
  settled            \* the fetches settled so far: their ids, the ones that
                     \* were rendered, and the latest

f1vars == <<yearsAll, lineDatasetsAll, yearFrom, yearTo, barChart,
            scatterChart, lineChart, updates, event, applied, computed>>

purevars == <<pureArgs, pureResult>>

roivars == <<roiYearsAll, roiYearFrom, roiYearTo, roiTable, roiChart,
             inflight, issued, settled>>

vars == <<f1vars, purevars, roivars>>

(***************************************************************************)
(* function1.js: the data the page is loaded with                          *)
(***************************************************************************)
\* The i-th year of the loaded range.
YearAt(i) == 2018 + i

YearsOfLength(n) == [i \in 1..n |-> YearAt(i)]

\* The series the groups are drawn from, each a pattern repeated over the
\* years: a constant rate; a group with no valid value (missing, NaN and
\* non-numeric entries); a rate that changes; an infinite entry and a gap.
SeriesPatterns ==
  { <<Num(91)>>,
    <<Null, NaN, NotANumber>>,
    <<Num(90), Num(92)>>,
    <<Inf(1), Num(90), Null>> }

\* More of them for computeStabilityFromLineDatasets on its own: other
\* constants, the mirror image of a changing rate, a rate next to a gap.
RankPatterns ==
  SeriesPatterns \cup
  { <<Num(90)>>,
    <<Num(92), Num(90)>>,
    <<Num(88), Null, Num(95)>> }

SeriesOf(pattern, n) == [i \in 1..n |-> pattern[((i - 1) % Len(pattern)) + 1]]

GroupLabels == <<"NUS", "NTU", "SMU", "SIT", "SUTD", "SUSS">>

\* Every lineDatasetsAll of k groups over n years: one series per group, as
\* long as yearsAll.
DatasetsFrom(patterns, n, k) ==
  { [g \in 1..k |-> [label |-> GroupLabels[g], data |-> SeriesOf(ps[g], n)]] :
      ps \in [1..k -> patterns] }

DatasetsOf(n, k) == DatasetsFrom(SeriesPatterns, n, k)

\* The view the page is rendered with before any range is applied:
\* d.barLabels, d.barValues, d.scatterPoints, d.years, d.lineDatasets.
BlankDefault(years, datasets) ==
  [barLabels |-> <<>>, barValues |-> <<>>, scatterPoints |-> <<>>,
   years |-> years, lineDatasets |-> datasets]

SampleDefault ==
  [barLabels |-> <<"NUS">>, barValues |-> <<Num(45)>>,
   scatterPoints |-> <<[label |-> "NUS", x |-> Num(90), y |-> Num(2)]>>,
   years |-> <<YearAt(1), YearAt(2)>>,
   lineDatasets |-> <<[label |-> "NUS", data |-> <<Num(89), Num(91)>>]>>]

DefaultViews(years, datasets) == {BlankDefault(years, datasets), SampleDefault}

(***************************************************************************)
(* function1.js: charts and handlers                                       *)
(***************************************************************************)
lineDataset(ds) == [label |-> ds.label, data |-> ds.data, spanGaps |-> FALSE]

\* new Chart(...) x 3, from the default view
createCharts(d) ==
  [barChart     |-> [labels |-> d.barLabels, data |-> d.barValues],
   scatterChart |-> d.scatterPoints,
   lineChart    |-> [labels |-> d.years,
                     datasets |-> [i \in 1..Len(d.lineDatasets) |->
                                     lineDataset(d.lineDatasets[i])]],
   updates      |-> <<>>,
   applied      |-> NoSlice,
   computed     |-> [stats |-> <<>>, ranked |-> <<>>]]

\* The options fillYearSelects gives both selectors.
yearOptions(years) == [i \in 1..Len(years) |-> String(years[i])]

\* String(yearsAll[0]) and String(yearsAll[yearsAll.length - 1])
firstYearString(years) ==
  IF Len(years) = 0 THEN UndefinedString ELSE String(years[1])

\* A variant of the reset handler's to year: the first year again.
lastYearAsFirst(years) ==
  IF Len(years) = 0 THEN UndefinedString ELSE String(years[1])

lastYearString(years) ==
  IF Len(years) = 0 THEN UndefinedString ELSE String(years[Len(years)])

\* A variant of the slice that leaves out the element at toIdx.
sliceSeqExclusive(seq, fromIdx, toIdx) ==
  LET hi == IF toIdx < Len(seq) THEN toIdx ELSE Len(seq)
  IN SubSeq(seq, fromIdx + 1, hi)

\* ds.data.slice(fromIdx, toIdx + 1), and yearsAll.slice(fromIdx, toIdx + 1)
sliceSeq(seq, fromIdx, toIdx) ==
  LET hi == IF toIdx + 1 < Len(seq) THEN toIdx + 1 ELSE Len(seq)
  IN SubSeq(seq, fromIdx + 1, hi)

scatterPoint(r) ==
  [label |-> r.group, x |-> NumberToFixed3(r.mean), y |-> NumberToFixed3(r.std)]

hasMeanAndStd(r) == r.mean # Null /\ r.std # Null

filterDatasets(datasets, slice) ==
  [i \in 1..Len(datasets) |->
     [label |-> datasets[i].label,
      data  |-> sliceSeq(datasets[i].data, slice.fromIdx, slice.toIdx)]]

barView(ranked) ==
  [labels |-> [i \in 1..Len(ranked) |-> ranked[i].group],
   data   |-> [i \in 1..Len(ranked) |-> NumberToFixed3(ranked[i].stability)]]

scatterView(points) == [i \in 1..Len(points) |-> scatterPoint(points[i])]

lineView(yearsFiltered, lineFiltered) ==
  [labels   |-> yearsFiltered,
   datasets |-> [i \in 1..Len(lineFiltered) |-> lineDataset(lineFiltered[i])]]

\* The three chart updates of applyRange.
updateCharts(slice, yearsFiltered, lineFiltered, res) ==
  [barChart     |-> barView(res.ranked),
   scatterChart |-> scatterView(SelectSeq(res.stats, hasMeanAndStd)),
   lineChart    |-> lineView(yearsFiltered, lineFiltered),
   updates      |-> <<"bar", "scatter", "line">>,
   applied      |-> slice,
   computed     |-> res]

recompute(slice, yearsFiltered, lineFiltered) ==
  updateCharts(slice, yearsFiltered, lineFiltered,
               computeStabilityFromLineDatasets(yearsFiltered, lineFiltered))

\* A variant of applyRange that leaves the bars of the range before.
applySliceKeepingBars(slice, years, datasets, cur) ==
  IF ~slice.ok THEN [cur EXCEPT !.updates = <<>>]
  ELSE [recompute(slice, sliceSeq(years, slice.fromIdx, slice.toIdx),
                  filterDatasets(datasets, slice))
          EXCEPT !.barChart = cur.barChart]

applySlice(slice, years, datasets, cur) ==
  IF ~slice.ok THEN [cur EXCEPT !.updates = <<>>]
  ELSE recompute(slice, sliceSeq(years, slice.fromIdx, slice.toIdx),
                 filterDatasets(datasets, slice))

\* applyRange(fromY, toY) on the charts `cur`: the charts afterwards.
applyRange(fromY, toY, years, datasets, cur) ==
  applySlice(sliceByYearRange(years, Number(fromY), Number(toY)),
             years, datasets, cur)

\* The charts of the current state, as applyRange takes them.
charts ==
  [barChart |-> barChart, scatterChart |-> scatterChart, lineChart |-> lineChart,
   updates |-> updates, applied |-> applied, computed |-> computed]

setCharts(c) ==
  /\ barChart' = c.barChart
  /\ scatterChart' = c.scatterChart
  /\ lineChart' = c.lineChart
  /\ updates' = c.updates
  /\ applied' = c.applied
  /\ computed' = c.computed

chartsAre(c) ==
  /\ barChart = c.barChart
  /\ scatterChart = c.scatterChart
  /\ lineChart = c.lineChart
  /\ updates = c.updates
  /\ applied = c.applied
  /\ computed = c.computed

\* The variables of the other flows, at rest.
PureAtRest ==
  /\ pureArgs = [fn |-> "none", years |-> <<>>, fromYear |-> Number(<<>>),
                 toYear |-> Number(<<>>), datasets |-> <<>>]
  /\ pureResult = [called |-> FALSE, slice |-> NoSlice, stats |-> <<>>,
                   ranked |-> <<>>]

NoChart == [created |-> FALSE, labels |-> <<>>, data |-> <<>>]

NoneSettled ==
  [ids |-> {}, rendered |-> {},
   last |-> [req |-> [id |-> 0, fromYear |-> <<>>, toYear |-> <<>>],
             outcome |-> "none"]]

ROIAtRest ==
  /\ roiYearsAll = <<>>
  /\ roiYearFrom = <<>>
  /\ roiYearTo = <<>>
  /\ roiTable = <<>>
  /\ roiChart = NoChart
  /\ inflight = {}
  /\ issued = 0
  /\ settled = NoneSettled

F1AtRest ==
  /\ yearsAll = <<>>
  /\ lineDatasetsAll = <<>>
  /\ yearFrom = <<>>
  /\ yearTo = <<>>
  /\ barChart = [labels |-> <<>>, data |-> <<>>]
  /\ scatterChart = <<>>
  /\ lineChart = [labels |-> <<>>, datasets |-> <<>>]
  /\ updates = <<>>
  /\ event = "none"
  /\ applied = NoSlice
  /\ computed = [stats |-> <<>>, ranked |-> <<>>]

\* The page as loaded: the charts created from the default view, the
\* selectors filled, the full range applied once.
Init ==
  /\ \E n \in 0..MaxYears : yearsAll = YearsOfLength(n)
  /\ \E k \in 0..MaxGroups : lineDatasetsAll \in DatasetsOf(Len(yearsAll), k)
  /\ yearFrom = SelectValue(yearOptions(yearsAll), firstYearString(yearsAll))
  /\ yearTo = SelectValue(yearOptions(yearsAll), lastYearString(yearsAll))
  /\ \E d \in DefaultViews(yearsAll, lineDatasetsAll) :
       chartsAre(applyRange(yearFrom, yearTo, yearsAll, lineDatasetsAll,
                            createCharts(d)))
  /\ event = "load"
  /\ PureAtRest
  /\ ROIAtRest

\* The user picks an option of the "from" selector.
SelectFrom ==
  /\ \E i \in 1..Len(yearsAll) : yearFrom' = yearOptions(yearsAll)[i]
  /\ event' = "select"
  /\ updates' = <<>>
  /\ UNCHANGED <<yearsAll, lineDatasetsAll, yearTo, barChart, scatterChart,
                 lineChart, applied, computed, purevars, roivars>>

\* The user picks an option of the "to" selector.
SelectTo ==
  /\ \E i \in 1..Len(yearsAll) : yearTo' = yearOptions(yearsAll)[i]
  /\ event' = "select"
  /\ updates' = <<>>
  /\ UNCHANGED <<yearsAll, lineDatasetsAll, yearFrom, barChart, scatterChart,
                 lineChart, applied, computed, purevars, roivars>>

\* applyBtn click
ClickApply ==
  /\ setCharts(applyRange(yearFrom, yearTo, yearsAll, lineDatasetsAll, charts))
  /\ event' = "apply"
  /\ UNCHANGED <<yearsAll, lineDatasetsAll, yearFrom, yearTo, purevars, roivars>>

\* resetBtn click
ClickReset ==
  /\ yearFrom' = SelectValue(yearOptions(yearsAll), firstYearString(yearsAll))
  /\ yearTo' = SelectValue(yearOptions(yearsAll), lastYearString(yearsAll))
  /\ setCharts(applyRange(yearFrom', yearTo', yearsAll, lineDatasetsAll, charts))
  /\ event' = "reset"
  /\ UNCHANGED <<yearsAll, lineDatasetsAll, purevars, roivars>>

Next == SelectFrom \/ SelectTo \/ ClickApply \/ ClickReset

Spec == Init /\ [][Next]_vars

(***************************************************************************)
(* SpecPure: sliceByYearRange and computeStabilityFromLineDatasets applied *)
(* to arguments drawn from bounded sets.                                   *)
(***************************************************************************)
\* Year lists of any order, repeats included.
YearLists == UNION { [1..n -> {YearAt(i) : i \in 1..MaxYears}] : n \in 0..MaxYears }

\* From and to years: the years, one year more, 0 and NaN.
YearArgs ==
  { [nan |-> FALSE, v |-> YearAt(i)] : i \in 1..(MaxYears + 1) }
    \cup { Number(<<>>), Number(UndefinedString) }

InitPure ==
  /\ \/ /\ \E ys \in YearLists, f \in YearArgs, t \in YearArgs :
             pureArgs = [fn |-> "sliceByYearRange", years |-> ys,
                         fromYear |-> f, toYear |-> t, datasets |-> <<>>]
     \/ /\ \E n \in 0..MaxYears, k \in 0..MaxRankGroups :
             \E ds \in DatasetsFrom(RankPatterns, n, k) :
               pureArgs = [fn |-> "computeStabilityFromLineDatasets",
                           years |-> YearsOfLength(n),
                           fromYear |-> Number(<<>>), toYear |-> Number(<<>>),
                           datasets |-> ds]
  /\ pureResult = [called |-> FALSE, slice |-> NoSlice, stats |-> <<>>,
                   ranked |-> <<>>]
  /\ F1AtRest
  /\ ROIAtRest

CallSlice ==
  /\ pureArgs.fn = "sliceByYearRange"
  /\ ~pureResult.called
  /\ pureResult' =
       [pureResult EXCEPT
          !.called = TRUE,
          !.slice = sliceByYearRange(pureArgs.years, pureArgs.fromYear,
                                     pureArgs.toYear)]
  /\ UNCHANGED <<pureArgs, f1vars, roivars>>

rankResult(res) ==
  [called |-> TRUE, slice |-> NoSlice, stats |-> res.stats, ranked |-> res.ranked]

CallRank ==
  /\ pureArgs.fn = "computeStabilityFromLineDatasets"
  /\ ~pureResult.called
  /\ pureResult' =
       rankResult(computeStabilityFromLineDatasets(pureArgs.years,
                                                   pureArgs.datasets))
  /\ UNCHANGED <<pureArgs, f1vars, roivars>>

NextPure == CallSlice \/ CallRank

SpecPure == InitPure /\ [][NextPure]_vars

(***************************************************************************)
(* function3.js: the ROI table and chart                                   *)
(***************************************************************************)
\* `${x}` of a number
cellText(x) == String(x)

\* What GET /api/roi/university answers for a range (no range: all years):
\* one row per university, the score depending on the range asked for.
ServerResults(fromYear, toYear) ==
  [i \in 1..2 |->
     [isObject |-> TRUE,
      university |-> GroupLabels[i],
      avg_ft_employment_rate |-> 90 + i,
      avg_median_salary |-> 4000 + 100 * i,
      roi_score |-> 10 * (Number(fromYear).v % 10) + (Number(toYear).v % 10)]]

NullRow ==
  [isObject |-> FALSE, university |-> "", avg_ft_employment_rate |-> 0,
   avg_median_salary |-> 0, roi_score |-> 0]

\* The ways a fetch settles: the fetch is rejected; the body is not JSON; the
\* body parses to null, to an object without results, to results with a null
\* in them, or to the results asked for.
Outcomes == {"rejected", "unparsable", "null", "noResults", "nullRow", "ok"}

\* data.results of the parsed body
resultsOf(outcome, req) ==
  CASE outcome = "ok" ->
         [isArray |-> TRUE, rows |-> ServerResults(req.fromYear, req.toYear)]
    [] outcome = "nullRow" ->
         [isArray |-> TRUE,
          rows |-> <<ServerResults(req.fromYear, req.toYear)[1], NullRow>>]
    [] OTHER -> [isArray |-> FALSE, rows |-> <<>>]

\* One <tr> of the table.
tableRow(row) ==
  <<row.university, cellText(row.avg_ft_employment_rate),
    cellText(row.avg_median_salary), cellText(row.roi_score)>>

\* results.forEach(row => ...): the rows appended before a row that cannot
\* be read throws.
RECURSIVE appendRows(_, _)
appendRows(tbody, rows) ==
  IF rows = <<>> THEN [threw |-> FALSE, rows |-> tbody]
  ELSE IF ~Head(rows).isObject THEN [threw |-> TRUE, rows |-> tbody]
       ELSE appendRows(Append(tbody, tableRow(Head(rows))), Tail(rows))

\* renderTable(results): tbody.innerHTML = "" comes first.
renderTable(results) ==
  IF ~results.isArray THEN [threw |-> TRUE, rows |-> <<>>]
  ELSE appendRows(<<>>, results.rows)

\* renderChart(results): the old chart destroyed, a new one made.
renderChart(results) ==
  [created |-> TRUE,
   labels  |-> [i \in 1..Len(results.rows) |-> results.rows[i].university],
   data    |-> [i \in 1..Len(results.rows) |-> results.rows[i].roi_score]]

\* renderTable(results); renderChart(results); on the page `view`
renderBoth(view, table, results) ==
  IF table.threw THEN [view EXCEPT !.table = table.rows]
  ELSE [table |-> table.rows, chart |-> renderChart(results)]

\* A variant of the callbacks that drops the response of a request that is
\* not the latest one issued.
onSettledIfLatest(view, outcome, req) ==
  IF req.id < issued \/ outcome \in {"rejected", "unparsable", "null"} THEN view
  ELSE renderBoth(view, renderTable(resultsOf(outcome, req)),
                  resultsOf(outcome, req))

\* .then(r => r.json()).then(data => {...}).catch(err => console.error(...))
onSettled(view, outcome, req) ==
  IF outcome \in {"rejected", "unparsable", "null"} THEN view
  ELSE renderBoth(view, renderTable(resultsOf(outcome, req)),
                  resultsOf(outcome, req))

\* loadROI(fromYear, toYear): the request it sends.  Without both years the
\* URL carries no range.
loadROI(fromYear, toYear, id) ==
  IF fromYear # <<>> /\ toYear # <<>>
  THEN [id |-> id, fromYear |-> fromYear, toYear |-> toYear]
  ELSE [id |-> id, fromYear |-> <<>>, toYear |-> <<>>]

\* The value fillYearSelects leaves in a selector.
filledValue(years, v) == IF Len(years) > 0 THEN SelectValue(yearOptions(years), v) ELSE <<>>

\* d.initialResults: absent, an empty array, or rows.
InitialResults == {"absent", "empty", "rows"}

initialRows(initial) ==
  [isArray |-> TRUE,
   rows |-> IF initial = "rows" THEN ServerResults(<<>>, <<>>) ELSE <<>>]

\* The two blocks that run as the page loads: each renders d.initialResults
\* or calls loadROI.
loadsAtInit(initial, years) ==
  IF Len(years) = 0 THEN 0
  ELSE IF initial = "absent" THEN 2
  ELSE IF initial = "empty" THEN 1
  ELSE 0

InitROI ==
  /\ \E n \in 0..MaxRoiYears : roiYearsAll = YearsOfLength(n)
  /\ roiYearFrom = filledValue(roiYearsAll, firstYearString(roiYearsAll))
  /\ roiYearTo = filledValue(roiYearsAll, lastYearString(roiYearsAll))
  /\ \E initial \in InitialResults :
       /\ roiTable = IF initial = "absent" THEN <<>>
                     ELSE renderTable(initialRows(initial)).rows
       /\ roiChart = IF initial = "absent" THEN NoChart
                     ELSE renderChart(initialRows(initial))
       /\ issued = loadsAtInit(initial, roiYearsAll)
       /\ inflight = { loadROI(roiYearFrom, roiYearTo, id) : id \in 1..issued }
  /\ settled = NoneSettled
  /\ F1AtRest
  /\ PureAtRest

RoiSelectFrom ==
  /\ \E i \in 1..Len(roiYearsAll) : roiYearFrom' = yearOptions(roiYearsAll)[i]
  /\ UNCHANGED <<roiYearsAll, roiYearTo, roiTable, roiChart, inflight, issued,
                 settled, f1vars, purevars>>

RoiSelectTo ==
  /\ \E i \in 1..Len(roiYearsAll) : roiYearTo' = yearOptions(roiYearsAll)[i]
  /\ UNCHANGED <<roiYearsAll, roiYearFrom, roiTable, roiChart, inflight, issued,
                 settled, f1vars, purevars>>

\* applyBtn click
RoiClickApply ==
  /\ issued < MaxRequests
  /\ issued' = issued + 1
  /\ inflight' = inflight \cup {loadROI(roiYearFrom, roiYearTo, issued')}
  /\ UNCHANGED <<roiYearsAll, roiYearFrom, roiYearTo, roiTable, roiChart,
                 settled, f1vars, purevars>>

\* resetBtn click
RoiClickReset ==
  /\ issued < MaxRequests
  /\ roiYearFrom' = SelectValue(yearOptions(roiYearsAll), firstYearString(roiYearsAll))
  /\ roiYearTo' = SelectValue(yearOptions(roiYearsAll), lastYearString(roiYearsAll))
  /\ issued' = issued + 1
  /\ inflight' = inflight \cup {loadROI(roiYearFrom', roiYearTo', issued')}
  /\ UNCHANGED <<roiYearsAll, roiTable, roiChart, settled, f1vars, purevars>>

roiView == [table |-> roiTable, chart |-> roiChart]

setRoiView(v) == roiTable' = v.table /\ roiChart' = v.chart

\* A fetch settles, in any order, and its callbacks run.
Settle ==
  /\ \E req \in inflight, outcome \in Outcomes :
       /\ setRoiView(onSettled(roiView, outcome, req))
       /\ inflight' = inflight \ {req}
       /\ settled' = [ids |-> settled.ids \cup {req.id},
                      rendered |-> IF outcome = "ok"
                                   THEN settled.rendered \cup {req}
                                   ELSE settled.rendered,
                      last |-> [req |-> req, outcome |-> outcome]]
  /\ UNCHANGED <<roiYearsAll, roiYearFrom, roiYearTo, issued, f1vars, purevars>>

NextROI ==
  RoiSelectFrom \/ RoiSelectTo \/ RoiClickApply \/ RoiClickReset \/ Settle

SpecROI == InitROI /\ [][NextROI]_vars

(***************************************************************************)
(* Properties of the range filter (function1.js), checked under Spec       *)
(***************************************************************************)
\* The positions of a year in yearsAll.
YearPositions(y) == { i \in 1..Len(yearsAll) : ~y.nan /\ yearsAll[i] = y.v }

\* The selector values name no range of yearsAll: a year is not one of
\* yearsAll, or the from year comes after the to year.
RangeInvalid(fromY, toY) ==
  \/ YearPositions(Number(fromY)) = {}
  \/ YearPositions(Number(toY)) = {}
  \/ \A i \in YearPositions(Number(fromY)), j \in YearPositions(Number(toY)) : i > j

\* The series of group g over the applied range, read off the loaded data.
AppliedLength == applied.toIdx - applied.fromIdx + 1

AppliedSeries(g) ==
  [i \in 1..AppliedLength |-> lineDatasetsAll[g].data[applied.fromIdx + i]]

Groups == 1..Len(lineDatasetsAll)

BarLabels == { barChart.labels[i] : i \in 1..Len(barChart.labels) }

ScatterLabels == { scatterChart[i].label : i \in 1..Len(scatterChart) }

RankedGroups == { computed.ranked[i].group : i \in 1..Len(computed.ranked) }

\* C1: applyRange with an invalid range (a year that is not in yearsAll, or
\* the from year after the to year) changes no chart view and issues no
\* chart update, whatever the state it is called in.
C1_InvalidRangeIsNoOp ==
  [][(event' \in {"apply", "reset"} /\ RangeInvalid(yearFrom', yearTo'))
       => /\ barChart' = barChart
          /\ scatterChart' = scatterChart
          /\ lineChart' = lineChart
          /\ updates' = <<>>]_vars

\* An invalid range applied to a filtered view that has bars.
C1_Witness ==
  /\ event = "apply"
  /\ RangeInvalid(yearFrom, yearTo)
  /\ updates = <<>>
  /\ applied.ok
  /\ applied.fromIdx > 0
  /\ barChart.labels # <<>>

\* The views of the full range: every year as a label, every group's whole
\* series as a line, bars and points computed over every year.
FullRangeShown ==
  /\ lineChart.labels = yearsAll
  /\ Len(lineChart.datasets) = Len(lineDatasetsAll)
  /\ \A g \in Groups :
       /\ lineChart.datasets[g].label = lineDatasetsAll[g].label
       /\ lineChart.datasets[g].data = lineDatasetsAll[g].data
  /\ barChart =
       barView(computeStabilityFromLineDatasets(yearsAll, lineDatasetsAll).ranked)
  /\ scatterChart =
       scatterView(SelectSeq(
         computeStabilityFromLineDatasets(yearsAll, lineDatasetsAll).stats,
         hasMeanAndStd))

\* C2 as claimed: after a click on reset the full range is shown, for a
\* yearsAll of any length, 0 included.
C2_ResetAlwaysUnfiltered == event = "reset" => FullRangeShown

\* C2 as amended: with at least one year loaded, a click on reset selects
\* the first and the last year, applies them and shows the full range; with
\* no year loaded nothing is ever applied or redrawn, the selectors stay
\* empty and the charts keep a default view.
C2_ResetShowsFullRange ==
  /\ (event = "reset" /\ Len(yearsAll) > 0) =>
       /\ yearFrom = String(yearsAll[1])
       /\ yearTo = String(yearsAll[Len(yearsAll)])
       /\ applied = [ok |-> TRUE, fromIdx |-> 0, toIdx |-> Len(yearsAll) - 1]
       /\ updates = <<"bar", "scatter", "line">>
       /\ FullRangeShown
  /\ Len(yearsAll) = 0 =>
       /\ ~applied.ok
       /\ updates = <<>>
       /\ yearFrom = <<>> /\ yearTo = <<>>
       /\ \E d \in DefaultViews(yearsAll, lineDatasetsAll) :
            /\ barChart = createCharts(d).barChart
            /\ scatterChart = createCharts(d).scatterChart
            /\ lineChart = createCharts(d).lineChart

\* A reset of several years with bars to show.
C2_Witness ==
  /\ event = "reset"
  /\ Len(yearsAll) >= 2
  /\ barChart.labels # <<>>
  /\ Len(lineChart.labels) = Len(yearsAll)

\* One and the same non-zero number, at least twice.
ConstantNonZero(series) ==
  /\ Len(series) >= 2
  /\ series[1].k = "num" /\ series[1].m # 0
  /\ \A i \in 1..Len(series) : series[i] = series[1]

\* C7 as claimed: a group whose series over the applied range is one
\* non-zero value repeated at least twice has std = 0 and no stability, and
\* is neither ranked nor a bar.
C7_ConstantSeriesUnranked ==
  applied.ok =>
    \A g \in Groups :
      ConstantNonZero(AppliedSeries(g)) =>
        /\ computed.stats[g].std = Zero
        /\ computed.stats[g].stability = Null
        /\ lineDatasetsAll[g].label \notin RankedGroups
        /\ lineDatasetsAll[g].label \notin BarLabels

\* No entry of the series is a number: each is missing, NaN or non-numeric.
NoValidValue(series) ==
  \A i \in 1..Len(series) : series[i].k \in {"null", "nan", "str"}

\* C8: a group without a valid value in the applied range has mean, std and
\* stability null; it has its entry in stats, no bar, no point in the
\* scatter view, and still its line.
C8_NoValidValues ==
  applied.ok =>
    \A g \in Groups :
      NoValidValue(AppliedSeries(g)) =>
        /\ Len(computed.stats) = Len(lineDatasetsAll)
        /\ computed.stats[g] =
             [group |-> lineDatasetsAll[g].label, mean |-> Null, std |-> Null,
              stability |-> Null]
        /\ lineDatasetsAll[g].label \notin RankedGroups
        /\ lineDatasetsAll[g].label \notin BarLabels
        /\ lineDatasetsAll[g].label \notin ScatterLabels
        /\ lineChart.datasets[g].label = lineDatasetsAll[g].label
        /\ lineChart.datasets[g].data = AppliedSeries(g)

\* A range of two years or more in which one group has no valid value while
\* another has a bar.
C8_Witness ==
  /\ applied.ok
  /\ AppliedLength >= 2
  /\ \E g \in Groups : NoValidValue(AppliedSeries(g))
  /\ barChart.labels # <<>>

\* C9: after an applyRange that got past its check the line view has one
\* dataset per group, the years of the range as labels, and per group the
\* values of the range, as many as labels, missing values in their places.
C9_LineViewIsTheSlice ==
  applied.ok =>
    /\ 0 <= applied.fromIdx /\ applied.fromIdx <= applied.toIdx
    /\ applied.toIdx < Len(yearsAll)
    /\ updates # <<>> =>
         /\ Number(yearFrom) = [nan |-> FALSE, v |-> yearsAll[applied.fromIdx + 1]]
         /\ Number(yearTo) = [nan |-> FALSE, v |-> yearsAll[applied.toIdx + 1]]
    /\ lineChart.labels =
         [i \in 1..AppliedLength |-> yearsAll[applied.fromIdx + i]]
    /\ Len(lineChart.datasets) = Len(lineDatasetsAll)
    /\ \A g \in Groups :
         /\ lineChart.datasets[g].label = lineDatasetsAll[g].label
         /\ Len(lineChart.datasets[g].data) = AppliedLength
         /\ Len(lineChart.datasets[g].data) = Len(lineChart.labels)
         /\ lineChart.datasets[g].data = AppliedSeries(g)
         /\ ~lineChart.datasets[g].spanGaps

\* A range inside yearsAll with a missing value in one of its lines.
C9_Witness ==
  /\ applied.ok
  /\ applied.fromIdx > 0
  /\ applied.toIdx > applied.fromIdx
  /\ \E g \in Groups : \E i \in 1..AppliedLength :
       lineChart.datasets[g].data[i] = Null

\* The charts one applyRange of the applied range gives the page as created.
FreshCharts ==
  applyRange(String(yearsAll[applied.fromIdx + 1]),
             String(yearsAll[applied.toIdx + 1]),
             yearsAll, lineDatasetsAll,
             createCharts(BlankDefault(yearsAll, lineDatasetsAll)))

ShowsFresh(c) ==
  /\ barChart = c.barChart
  /\ scatterChart = c.scatterChart
  /\ lineChart = c.lineChart
  /\ computed = c.computed

\* C10: the three views are those of the latest range that was applied, as
\* one applyRange of it gives them on the page as created, whatever was
\* applied before; no step changes yearsAll or lineDatasetsAll; applying the
\* applied range again changes no view.
C10_NoHistory ==
  /\ [](applied.ok => ShowsFresh(FreshCharts))
  /\ [][/\ yearsAll' = yearsAll
        /\ lineDatasetsAll' = lineDatasetsAll
        /\ (event' = "apply" /\ applied.ok /\ applied' = applied)
             => /\ barChart' = barChart
                /\ scatterChart' = scatterChart
                /\ lineChart' = lineChart]_vars

\* A narrower range applied by the button, with bars and points to show.
C10_Witness ==
  /\ event = "apply"
  /\ updates # <<>>
  /\ applied.ok
  /\ applied.fromIdx > 0
  /\ barChart.labels # <<>>
  /\ scatterChart # <<>>

(***************************************************************************)
(* Properties of the helpers of function1.js, checked under SpecPure       *)
(***************************************************************************)
\* The positions, from 1, at which year y stands in the argument list.
ArgPositions(y) ==
  { i \in 1..Len(pureArgs.years) : ~y.nan /\ pureArgs.years[i] = y.v }

FirstOf(S) == CHOOSE i \in S : \A j \in S : i <= j

\* C5: sliceByYearRange returns None exactly when fromYear is not in years,
\* or toYear is not, or fromYear's index is greater than toYear's; else the
\* indexes of the two years, fromIdx <= toIdx, never those of a near year;
\* for years = [y] and fromYear = toYear = y it returns 0 and 0.
C5_ExactMembership ==
  (pureResult.called /\ pureArgs.fn = "sliceByYearRange") =>
    /\ ~pureResult.slice.ok <=>
         \/ ArgPositions(pureArgs.fromYear) = {}
         \/ ArgPositions(pureArgs.toYear) = {}
         \/ FirstOf(ArgPositions(pureArgs.fromYear))
              > FirstOf(ArgPositions(pureArgs.toYear))
    /\ ~pureResult.slice.ok =>
         pureResult.slice = [ok |-> FALSE, fromIdx |-> -1, toIdx |-> -1]
    /\ pureResult.slice.ok =>
         /\ pureResult.slice.fromIdx = FirstOf(ArgPositions(pureArgs.fromYear)) - 1
         /\ pureResult.slice.toIdx = FirstOf(ArgPositions(pureArgs.toYear)) - 1
         /\ pureResult.slice.fromIdx <= pureResult.slice.toIdx
         /\ pureArgs.years[pureResult.slice.fromIdx + 1] = pureArgs.fromYear.v
         /\ pureArgs.years[pureResult.slice.toIdx + 1] = pureArgs.toYear.v
    /\ (/\ Len(pureArgs.years) = 1
        /\ pureArgs.fromYear = [nan |-> FALSE, v |-> pureArgs.years[1]]
        /\ pureArgs.toYear = pureArgs.fromYear) =>
         pureResult.slice = [ok |-> TRUE, fromIdx |-> 0, toIdx |-> 0]

\* A range of several years that does not begin at the first one.
C5_Witness ==
  /\ pureResult.called
  /\ pureArgs.fn = "sliceByYearRange"
  /\ pureResult.slice.ok
  /\ pureResult.slice.fromIdx > 0
  /\ pureResult.slice.toIdx > pureResult.slice.fromIdx

\* a >= b for two finite numbers, compared as integers at the lesser exponent.
AtLeast(a, b) ==
  IF a.e <= b.e
  THEN a.s * a.m >= b.s * b.m * (2 ^ (b.e - a.e))
  ELSE a.s * a.m * (2 ^ (a.e - b.e)) >= b.s * b.m

\* The place in stats of an entry of ranked.
StatsIndex(r) == CHOOSE g \in 1..Len(pureResult.stats) : pureResult.stats[g] = r

\* C6: stats has one entry per group in the order of the input; ranked holds
\* exactly the entries of stats with a non-null finite stability, each once,
\* in descending order of stability, those of equal stability in the order
\* of the input.
C6_RankedSortedStable ==
  (pureResult.called /\ pureArgs.fn = "computeStabilityFromLineDatasets") =>
    /\ Len(pureResult.stats) = Len(pureArgs.datasets)
    /\ \A g \in 1..Len(pureArgs.datasets) :
         pureResult.stats[g].group = pureArgs.datasets[g].label
    /\ { pureResult.ranked[i] : i \in 1..Len(pureResult.ranked) }
         = { pureResult.stats[g] : g \in
               { h \in 1..Len(pureResult.stats) :
                   pureResult.stats[h].stability.k = "num" } }
    /\ \A i, j \in 1..Len(pureResult.ranked) :
         i < j =>
           /\ pureResult.ranked[i] # pureResult.ranked[j]
           /\ AtLeast(pureResult.ranked[i].stability, pureResult.ranked[j].stability)
           /\ pureResult.ranked[i].stability = pureResult.ranked[j].stability
                => StatsIndex(pureResult.ranked[i]) < StatsIndex(pureResult.ranked[j])

\* Three groups ranked, two of them of equal stability, the most stable one
\* not the first of the input.
C6_Witness ==
  /\ pureResult.called
  /\ pureArgs.fn = "computeStabilityFromLineDatasets"
  /\ Len(pureResult.ranked) = 3
  /\ pureResult.ranked[1] # pureResult.stats[1]
  /\ \E i \in 1..2 :
       pureResult.ranked[i].stability = pureResult.ranked[i + 1].stability

(***************************************************************************)
(* Properties of the ROI flow (function3.js), checked under SpecROI        *)
(***************************************************************************)
\* C3 as claimed: when a fetch settles in a failure (rejected, body not
\* JSON, body without results that can be rendered) the rows of the table
\* and the chart are what they were, and no request is sent again.
C3_FailureLeavesViews ==
  [][(settled' # settled /\ settled'.last.outcome # "ok")
       => /\ roiTable' = roiTable
          /\ roiChart' = roiChart
          /\ issued' = issued
          /\ inflight' \subseteq inflight]_vars

InflightIds == { r.id : r \in inflight }

\* The table and the chart made of the results of request req.
ShowsResultsOf(req) ==
  /\ roiTable = [i \in 1..Len(ServerResults(req.fromYear, req.toYear)) |->
                   tableRow(ServerResults(req.fromYear, req.toYear)[i])]
  /\ roiChart = renderChart(resultsOf("ok", req))

\* C4: every request issued is outstanding or settled, none is cancelled or
\* merged with another of the same range, and the table and the chart show
\* the results of the response handled last, whenever it was issued.
C4_LastResponseWins ==
  /\ InflightIds \cap settled.ids = {}
  /\ InflightIds \cup settled.ids = 1..issued
  /\ Cardinality(inflight) + Cardinality(settled.ids) = issued
  /\ settled.last.outcome = "ok" => ShowsResultsOf(settled.last.req)

\* The results shown are those of request A, and a request B for another
\* range, issued after A, was answered and rendered before.
C4_Witness ==
  /\ settled.last.outcome = "ok"
  /\ ShowsResultsOf(settled.last.req)
  /\ \E b \in settled.rendered :
       /\ b.id > settled.last.req.id
       /\ b.id = issued
       /\ <<b.fromYear, b.toYear>>
            # <<settled.last.req.fromYear, settled.last.req.toYear>>
       /\ ~ShowsResultsOf(b)

=============================================================================
